---- MODULE Spec2Model ----
(***************************************************************************)
(* The rotating log writer of core/logx (src/unnamed/part_000): the        *)
(* RotateLogger with its bounded channel, its single writer goroutine, the *)
(* Close/Write entry points, the rotation protocol and the two rotation    *)
(* rules (DailyRotateRule, SizeLimitRotateRule).                           *)
(*                                                                         *)
(* Time is counted in seconds (the resolution of time.RFC3339).  A file    *)
(* name is modelled by the time value its suffix formats: both formats     *)
(* ("2006-01-02" and RFC3339, one time zone) are order preserving and      *)
(* injective on what they keep, so a date is the day number and an RFC3339 *)
(* stamp is the second number.  A file's content is the sequence of the    *)
(* records written to it; a record is [id, len], the id being the position *)
(* of its Write call in the order in which the calls completed.  Content   *)
(* that was in the target file before the logger opened it is the record   *)
(* of id 0.                                                                *)
(***************************************************************************)
EXTENDS Integers, Sequences, FiniteSets, Bags, TLC

VARIABLES
    now,          \* the wall clock, in seconds
    ticks,        \* how many times the clock has advanced (bounded)
    kind,         \* "daily" (DailyRotateRule) or "size" (SizeLimitRotateRule)
    maxSize,      \* SizeLimitRotateRule.maxSize, in megabytes
    rotatedTime,  \* DailyRotateRule.rotatedTime
    fp,           \* RotateLogger.fp: "open", "nil" or "closed"
    backup,       \* RotateLogger.backup, the cached backup name
    currentSize,  \* RotateLogger.currentSize
    channel,      \* RotateLogger.channel, the records in flight
    done,         \* RotateLogger.done is closed
    running,      \* the writer goroutine has not returned (waitGroup > 0)
    once,         \* RotateLogger.closeOnce: "new", "running" or "done"
    file,         \* the target file on disk: [exists, data]
    backups,      \* the backup files on disk: a set of [name, data]
    pend,         \* the Write calls in progress, a bag of [len, late]
    calls,        \* the completed Write calls, in completion order
    sink,         \* ids of the records printed by log.Println
    closes,       \* the Close calls so far, in call order: [st, ret]
    written,      \* ids of the records handed to fp.Write
    last,         \* what the most recent call of write() did
    faults,       \* how many file operations have failed so far
    doneCloses,   \* how many times close(l.done) ran
    syncs,        \* how many times Close called fp.Sync
    fpCloses,     \* how many times Close called fp.Close
    ioBy,         \* the Close calls that touched the file handle
    conf,         \* the configuration: delimiter, days, gzip, maxBackups
                  \* (the rule), compress (the logger), and of the
                  \* environment the lengths of the records written and the
                  \* file operations of rotate that can fail
    pipes,        \* the goroutines started by postRotate, in start order
    q             \* a call of a rule's OutdatedFiles: its inputs and result

vars == <<now, ticks, kind, maxSize, rotatedTime, fp, backup, currentSize,
          channel, done, running, once, file, backups, pend, calls, sink,
          closes, written, last, faults, doneCloses, syncs,
          fpCloses, ioBy, conf, pipes, q>>

(***************************************************************************)
(* Program constants.                                                      *)
(***************************************************************************)
hoursPerDay == 24
megabyte == 1024 * 1024
\* The channel's capacity (100 in the source), scaled down.
bufferSize == 2

(***************************************************************************)
(* Bounds of the model.                                                    *)
(***************************************************************************)
MaxCalls == 3
MaxFaults == 1
MaxTicks == 1

Producers == {"p1", "p2"}
\* The Close calls, numbered in call order.
Closers == {1, 2}
\* Lengths of the records the producers write: two records exceed a budget
\* of one megabyte, one does not.
Lens == {(3 * megabyte) \div 4}
\* The budgets a SizeLimit rule is built with, in megabytes.
MaxSizes == {1}
\* Size of the target file when the logger opens it; 0: it creates the file.
InitSizes == {0, megabyte}

\* A length that fits the budget after a record of Lens has been written.
SmallLens == {megabyte \div 4}
AllLens == Lens \cup SmallLens

DaySeconds == hoursPerDay * 60 * 60

\* The logger is opened at midnight of day 1; names are times, all positive.
StartTime == DaySeconds
\* The empty string, as a file name or a rotation marker.
NoName == 0 - 1

NoWrite == [id |-> 0, len |-> 0, shall |-> FALSE, rotated |-> FALSE,
            marked |-> FALSE, reset |-> FALSE, hadFp |-> TRUE]

(***************************************************************************)
(* The clock and the two time formats.                                     *)
(***************************************************************************)
getNowDate(t) == t \div DaySeconds

getNowDateInRFC3339Format(t) == t + (-24 * 60 + 5) * 60

(***************************************************************************)
(* The rotation rules.                                                     *)
(***************************************************************************)
DailyAlwaysRotate(rt, t) == TRUE

DailyShallRotate(rt, t) == rt # NoName /\ getNowDate(t) # rt

SizeLimitShallRotate(ms, cur, writeLen) ==
    ms > 0 /\ ms * megabyte < cur + writeLen

ShallRotate(k, ms, rt, t, cur, writeLen) ==
    IF k = "daily" THEN DailyShallRotate(rt, t)
                   ELSE SizeLimitShallRotate(ms, cur, writeLen)

BackupFileName(k, t) ==
    IF k = "daily" THEN getNowDate(t) ELSE getNowDateInRFC3339Format(t)

MarkRotated(k, t) ==
    IF k = "daily" THEN getNowDate(t) ELSE getNowDateInRFC3339Format(t)

(***************************************************************************)
(* File names as the rules build and compare them.  A name is a sequence   *)
(* of tokens; a token is a time (a date or a stamp, never negative) or one *)
(* of the literals below, numbered in the order of their first bytes:      *)
(* "-" < ".gz" < ".log" < any digit.  Every name starts with Base.         *)
(***************************************************************************)
Base == 0 - 4

Dash == 0 - 3

gzipExt == 0 - 2

Ext == 0 - 1

\* r.filename, and what parseFilename makes of it.
filename == <<Base, Ext>>

prefix == <<Base>>

ext == <<Ext>>

gzSuffix(gz) == IF gz THEN <<gzipExt>> ELSE <<>>

\* fmt.Sprintf("%s%s%s", r.filename, r.delimiter, date), compressed or not.
DailyName(delimiter, date, gz) ==
    filename \o delimiter \o <<date>> \o gzSuffix(gz)

\* prefix + delimiter + timestamp + ext, compressed or not.
SizeLimitName(delimiter, stamp, gz) ==
    prefix \o delimiter \o <<stamp>> \o ext \o gzSuffix(gz)

\* The comparison of Go strings, byte by byte: a proper prefix is smaller.
RECURSIVE Less(_, _)
Less(a, b) ==
    IF b = <<>> THEN FALSE
    ELSE IF a = <<>> THEN TRUE
    ELSE IF Head(a) # Head(b) THEN Head(a) < Head(b)
    ELSE Less(Tail(a), Tail(b))

\* filepath.Glob(pre + "*" + suf) over the names of a directory.
Glob(names, pre, suf) ==
    {n \in names :
        /\ Len(n) >= Len(pre) + Len(suf)
        /\ SubSeq(n, 1, Len(pre)) = pre
        /\ SubSeq(n, Len(n) - Len(suf) + 1, Len(n)) = suf}

\* sort.Strings
RECURSIVE SortStrings(_)
SortStrings(names) ==
    IF names = {} THEN <<>>
    ELSE LET m == CHOOSE x \in names : \A y \in names : x = y \/ Less(x, y)
         IN  <<m>> \o SortStrings(names \ {m})

\* DailyRotateRule.OutdatedFiles at time t over the directory names.
DailyOutdatedFiles(r, names, t) ==
    IF r.days <= 0 THEN {}
    ELSE LET files == Glob(names, filename \o r.delimiter, gzSuffix(r.gzip))
             boundary == getNowDate(t - 60 * 60 * hoursPerDay * r.days)
             boundaryFile == DailyName(r.delimiter, boundary, r.gzip)
         IN  {f \in files : Less(f, boundaryFile)}

ExcessNewest(files, maxBackups) ==
    {files[i] : i \in (maxBackups + 1)..Len(files)}

\* files[:len(files)-r.maxBackups]
Excess(files, maxBackups) ==
    {files[i] : i \in 1..(Len(files) - maxBackups)}

NoneTooOld(files, bf) == {}

\* for _, f := range files { if f < bf { outdated[f] } else { break } }
RECURSIVE TooOld(_, _)
TooOld(files, bf) ==
    IF files = <<>> THEN {}
    ELSE IF Less(Head(files), bf)
         THEN {Head(files)} \cup TooOld(Tail(files), bf)
         ELSE {}

\* SizeLimitRotateRule.OutdatedFiles at time t over the directory names.
SizeLimitOutdatedFiles(r, names, t) ==
    LET files == SortStrings(Glob(names, prefix \o r.delimiter,
                                  ext \o gzSuffix(r.gzip)))
        many == r.maxBackups > 0 /\ Len(files) > r.maxBackups
        tooMany == IF many THEN Excess(files, r.maxBackups) ELSE {}
        kept == IF many
                THEN SubSeq(files, Len(files) - r.maxBackups + 1, Len(files))
                ELSE files
        boundary == t - 60 * 60 * hoursPerDay * r.days
        bf == SizeLimitName(r.delimiter, boundary, r.gzip)
    IN  tooMany \cup (IF r.days > 0 THEN TooOld(kept, bf) ELSE {})

(***************************************************************************)
(* Files.                                                                  *)
(***************************************************************************)
NoFile == [exists |-> FALSE, data |-> <<>>]

CreateFile == [exists |-> TRUE, data |-> <<>>]

\* os.Rename(filename, name): the target replaces whatever had that name.
\* gz tells a backup name from that name followed by gzipExt.
Rename(bs, name, f) ==
    {b \in bs : b.name # name \/ b.gz}
        \cup {[name |-> name, data |-> f.data, gz |-> FALSE]}

RECURSIVE Size(_)
Size(data) == IF data = <<>> THEN 0 ELSE Head(data).len + Size(Tail(data))

(***************************************************************************)
(* RotateLogger.rotate on the logger state s, at time t.  fault names the  *)
(* file operation that fails in this call ("none": none does).  The result *)
(* is s with err set, and faulted set when the failing operation ran.      *)
(***************************************************************************)
rotate(s, t, fault) ==
    LET closed == [s EXCEPT !.fp = "nil"]
        closeErr == s.fp # "nil" /\ fault = "close"
        doRename == closed.file.exists /\ closed.backup # NoName
        renameErr == doRename /\ fault = "rename"
        \* spawned: the backup handed to postRotate
        renamed ==
            IF doRename
            THEN [closed EXCEPT
                    !.backups = Rename(closed.backups, closed.backup, closed.file),
                    !.file = NoFile,
                    !.spawned = closed.backup]
            ELSE closed
        named == [renamed EXCEPT !.backup = BackupFileName(s.kind, t)]
        createErr == fault = "create"
    IN  IF closeErr THEN [closed EXCEPT !.err = TRUE, !.faulted = TRUE]
        ELSE IF renameErr THEN [closed EXCEPT !.err = TRUE, !.faulted = TRUE]
        ELSE IF createErr THEN [named EXCEPT !.err = TRUE, !.faulted = TRUE]
        ELSE [named EXCEPT !.fp = "open", !.file = CreateFile]

\* The success branch of write(): l.rule.MarkRotated(); l.currentSize = 0.
markAndReset(s, t) ==
    [s EXCEPT !.rotatedTime = MarkRotated(s.kind, t),
              !.currentSize = 0,
              !.marked = TRUE,
              !.reset = TRUE]

\* The tail of write(): if l.fp != nil { l.fp.Write(v); l.currentSize += len(v) }
fpWrite(s, v) ==
    IF s.fp # "nil"
    THEN [s EXCEPT !.file.data = Append(@, v),
                   !.currentSize = @ + v.len,
                   !.wrote = TRUE]
    ELSE s

(***************************************************************************)
(* RotateLogger.write(v).                                                  *)
(***************************************************************************)
writeLate(s, v, t, fault) ==
    LET w == fpWrite(s, v)
    IN  IF ShallRotate(w.kind, w.maxSize, w.rotatedTime, t, s.currentSize, v.len)
        THEN LET r == rotate([w EXCEPT !.shall = TRUE], t, fault)
             IN  IF r.err THEN r
                 ELSE markAndReset([r EXCEPT !.rotated = TRUE], t)
        ELSE w

writeNoReset(s, v, t, fault) ==
    LET r == IF ShallRotate(s.kind, s.maxSize, s.rotatedTime, t, s.currentSize, v.len)
             THEN rotate([s EXCEPT !.shall = TRUE], t, fault)
             ELSE s
        m == IF r.shall /\ ~r.err
             THEN [r EXCEPT !.rotated = TRUE,
                            !.rotatedTime = MarkRotated(s.kind, t),
                            !.marked = TRUE]
             ELSE r
    IN  fpWrite(m, v)

write(s, v, t, fault) ==
    LET r == IF ShallRotate(s.kind, s.maxSize, s.rotatedTime, t, s.currentSize, v.len)
             THEN rotate([s EXCEPT !.shall = TRUE], t, fault)
             ELSE s
        m == IF r.shall /\ ~r.err
             THEN markAndReset([r EXCEPT !.rotated = TRUE], t)
             ELSE r
    IN  fpWrite(m, v)

\* postRotate(file): go func() { maybeCompressFile; maybeDeleteOutdatedFiles }.
\* pc is the call the goroutine is about to make.
postRotate(name) ==
    [file |-> name, pc |-> "compress", gz |-> "none", cleaned |-> FALSE]

(***************************************************************************)
(* Configurations.                                                         *)
(***************************************************************************)
NoDelimiter == <<>>

MainConf ==
    [lens |-> Lens, delimiter |-> <<Dash>>, days |-> 0, gzip |-> FALSE,
     maxBackups |-> 0, compress |-> FALSE,
     failing |-> {"close", "rename", "create"}]

\* Compression, count retention and age retention on or off; the rule's
\* gzip follows the logger's compress.
PipeConfs ==
    {[MainConf EXCEPT !.compress = c, !.gzip = c, !.maxBackups = k,
                      !.days = d] :
        c \in BOOLEAN, k \in {0, 1}, d \in {0, 1}}

\* Records of two lengths: after one of Lens, one of SmallLens still fits.
\* Of the file operations of rotate only os.Rename can fail.
RecoverConf == [MainConf EXCEPT !.lens = AllLens, !.failing = {"rename"}]

NoQuery == [rule |-> "none"]

(***************************************************************************)
(* Calls of OutdatedFiles: the rule, the time of the call, and the backup  *)
(* files in the directory, each known by the time at which it was opened   *)
(* (when its name was cached) and by whether it has been compressed.       *)
(***************************************************************************)
MaxDays == 2

MaxBackups == 2

MaxFiles == 3

MaxAge == 5

HalfDay == DaySeconds \div 2

QueryTime == 5 * DaySeconds

OpenTimes == {QueryTime - k * HalfDay : k \in 0..MaxAge}

FileSets ==
    {fs \in SUBSET [open : OpenTimes, gz : BOOLEAN] : Cardinality(fs) <= MaxFiles}

Queries ==
    [rule : {"daily"}, delimiter : {<<Dash>>, NoDelimiter}, days : 0..MaxDays,
     gzip : BOOLEAN, maxBackups : {0}, now : {QueryTime}, files : FileSets,
     called : {FALSE}, result : {{}}]
    \cup
    [rule : {"size"}, delimiter : {<<Dash>>, NoDelimiter}, days : 0..MaxDays,
     gzip : BOOLEAN, maxBackups : 0..MaxBackups, now : {QueryTime},
     files : FileSets, called : {FALSE}, result : {{}}]

\* The name under which the rule of query c renamed the file f.
BackupName(c, f) ==
    IF c.rule = "daily"
    THEN DailyName(c.delimiter, getNowDate(f.open), f.gz)
    ELSE SizeLimitName(c.delimiter, getNowDateInRFC3339Format(f.open), f.gz)

\* The directory: the active file and the backups.
Dir(c) == {filename} \cup {BackupName(c, f) : f \in c.files}

\* The logger, its rule and the disk as one record, for rotate and write.
Logger ==
    [kind |-> kind, maxSize |-> maxSize, rotatedTime |-> rotatedTime,
     fp |-> fp, backup |-> backup, currentSize |-> currentSize,
     file |-> file, backups |-> backups,
     err |-> FALSE, faulted |-> FALSE, shall |-> FALSE, rotated |-> FALSE,
     marked |-> FALSE, reset |-> FALSE, wrote |-> FALSE, spawned |-> NoName]

(***************************************************************************)
(* NewLogger: the rule is constructed, init() caches the backup name and   *)
(* creates the file or opens it for append, startWorker starts the writer. *)
(***************************************************************************)
Start(confs, kinds, sizes, queries) ==
    /\ now = StartTime
    /\ ticks = 0
    /\ conf \in confs
    /\ kind \in kinds
    /\ maxSize \in (IF kind = "size" THEN MaxSizes ELSE {0})
    /\ rotatedTime = MarkRotated(kind, now)
    /\ fp = "open"
    /\ backup = BackupFileName(kind, now)
    /\ currentSize = 0
    /\ channel = <<>>
    /\ done = FALSE
    /\ running = TRUE
    /\ once = "new"
    /\ \E n \in sizes :
          file = [exists |-> TRUE,
                  data |-> IF n = 0 THEN <<>> ELSE <<[id |-> 0, len |-> n]>>]
    /\ backups = {}
    /\ pend = EmptyBag
    /\ calls = <<>>
    /\ sink = {}
    /\ closes = <<>>
    /\ written = {}
    /\ last = NoWrite
    /\ faults = 0
    /\ doneCloses = 0
    /\ syncs = 0
    /\ fpCloses = 0
    /\ ioBy = {}
    /\ pipes = <<>>
    /\ q \in queries

\* Compression and retention are off: a postRotate goroutine changes nothing.
Init == Start({MainConf}, {"daily", "size"}, InitSizes, {NoQuery})

writerVars == <<kind, maxSize, rotatedTime, fp, backup, currentSize, file,
                backups, written, last, conf, pipes, q>>
closeVars == <<once, closes, doneCloses, syncs, fpCloses, ioBy>>
producerVars == <<pend, calls, sink>>

(***************************************************************************)
(* The clock advances by a day.                                            *)
(***************************************************************************)
Tick ==
    /\ ticks < MaxTicks
    /\ now' = now + DaySeconds
    /\ ticks' = ticks + 1
    /\ UNCHANGED <<channel, done, running, faults>>
    /\ UNCHANGED writerVars
    /\ UNCHANGED closeVars
    /\ UNCHANGED producerVars

(***************************************************************************)
(* RotateLogger.Write: a select between the send and the done channel.     *)
(***************************************************************************)
AlwaysRoom == TRUE

\* case l.channel <- data: the buffered channel has room.
CanSend == Len(channel) < bufferSize

\* case <-l.done: the done channel is closed.
SeesDone == done

\* Write is called with a record of n bytes and reaches the select.
WriteCall ==
    /\ BagCardinality(pend) < Cardinality(Producers)
    /\ Len(calls) + BagCardinality(pend) < MaxCalls
    /\ \E n \in conf.lens :
          pend' = pend (+) SetToBag({[len |-> n, late |-> done]})
    /\ UNCHANGED <<now, ticks, channel, done, running, faults, calls, sink>>
    /\ UNCHANGED writerVars
    /\ UNCHANGED closeVars

\* The send is chosen: return len(data), nil.
WriteSend(c) ==
    /\ BagIn(c, pend)
    /\ CanSend
    /\ LET id == Len(calls) + 1
       IN  /\ channel' = Append(channel, [id |-> id, len |-> c.len])
           /\ calls' = Append(calls, [n |-> c.len, err |-> "nil",
                                      late |-> c.late, closing |-> done])
    /\ pend' = pend (-) SetToBag({c})
    /\ UNCHANGED <<now, ticks, done, running, faults, sink>>
    /\ UNCHANGED writerVars
    /\ UNCHANGED closeVars

\* The done case is chosen: log.Println(string(data)); return 0, ErrLogFileClosed.
WriteClosed(c) ==
    /\ BagIn(c, pend)
    /\ SeesDone
    /\ LET id == Len(calls) + 1
       IN  /\ sink' = sink \cup {id}
           /\ calls' = Append(calls, [n |-> 0, err |-> "ErrLogFileClosed",
                                      late |-> c.late, closing |-> done])
    /\ pend' = pend (-) SetToBag({c})
    /\ UNCHANGED <<now, ticks, channel, done, running, faults>>
    /\ UNCHANGED writerVars
    /\ UNCHANGED closeVars

(***************************************************************************)
(* The writer goroutine of startWorker: a select between a record of the   *)
(* channel, handed to write(), and the done channel, on which it returns.  *)
(***************************************************************************)
DequeueLast(ch) == [event |-> ch[Len(ch)], rest |-> SubSeq(ch, 1, Len(ch) - 1)]

Dequeue(ch) == [event |-> Head(ch), rest |-> Tail(ch)]

NeverSeesDone == FALSE

\* case <-l.done, in the writer goroutine.
WorkerSeesDone == done

WorkerRecv ==
    /\ running
    /\ channel # <<>>
    /\ \E fault \in {"none"} \cup conf.failing :
         LET d == Dequeue(channel)
             r == write(Logger, d.event, now, fault)
         IN  /\ fault # "none" => (r.faulted /\ faults < MaxFaults)
             /\ channel' = d.rest
             /\ rotatedTime' = r.rotatedTime
             /\ fp' = r.fp
             /\ backup' = r.backup
             /\ currentSize' = r.currentSize
             /\ file' = r.file
             /\ backups' = r.backups
             /\ written' = IF r.wrote THEN written \cup {d.event.id} ELSE written
             /\ last' = [id |-> d.event.id, len |-> d.event.len,
                         shall |-> r.shall, rotated |-> r.rotated,
                         marked |-> r.marked, reset |-> r.reset,
                         hadFp |-> fp # "nil"]
             /\ pipes' = IF r.spawned # NoName
                         THEN Append(pipes, postRotate(r.spawned))
                         ELSE pipes
             /\ faults' = IF r.faulted THEN faults + 1 ELSE faults
    /\ UNCHANGED <<now, ticks, kind, maxSize, done, running, conf, q>>
    /\ UNCHANGED closeVars
    /\ UNCHANGED producerVars

WorkerExit ==
    /\ running
    /\ WorkerSeesDone
    /\ running' = FALSE
    /\ UNCHANGED <<now, ticks, channel, done, faults>>
    /\ UNCHANGED writerVars
    /\ UNCHANGED closeVars
    /\ UNCHANGED producerVars

(***************************************************************************)
(* RotateLogger.Close.  closeOnce.Do runs the body in the first caller and *)
(* makes every other caller wait until that body has returned.             *)
(***************************************************************************)
OnceAlways == TRUE

OnceFresh == once = "new"

\* Close is called: the first caller closes done and waits for the writer.
CloseCall ==
    /\ Len(closes) < Cardinality(Closers)
    /\ IF OnceFresh
       THEN /\ once' = "running"
            /\ done' = TRUE
            /\ doneCloses' = doneCloses + 1
            /\ closes' = Append(closes, [st |-> "wait", ret |-> "none"])
       ELSE /\ closes' = Append(closes, [st |-> "blocked", ret |-> "none"])
            /\ UNCHANGED <<once, done, doneCloses>>
    /\ UNCHANGED <<now, ticks, channel, running, faults, syncs, fpCloses, ioBy>>
    /\ UNCHANGED writerVars
    /\ UNCHANGED producerVars

NoWait == TRUE

\* l.waitGroup.Wait() returns once the writer goroutine has run Done().
Waited == ~running

\* waitGroup.Wait() returns; fp.Sync(), then fp.Close() unless Sync failed.
\* On a nil handle Sync returns os.ErrInvalid.
CloseFinish(c) ==
    /\ c \in DOMAIN closes
    /\ closes[c].st = "wait"
    /\ Waited
    /\ \E fault \in {"none", "sync", "close"} :
         LET syncErr == fp # "open" \/ fault = "sync"
             closeErr == ~syncErr /\ fault = "close"
             faulted == fp = "open" /\ fault # "none"
         IN  /\ fault # "none" => (faulted /\ faults < MaxFaults)
             /\ syncs' = syncs + 1
             /\ fpCloses' = IF syncErr THEN fpCloses ELSE fpCloses + 1
             /\ fp' = IF syncErr THEN fp ELSE "closed"
             /\ closes' = [closes EXCEPT
                             ![c] = [st |-> "ret",
                                     ret |-> IF syncErr \/ closeErr
                                             THEN "err" ELSE "nil"]]
             /\ faults' = IF faulted THEN faults + 1 ELSE faults
    /\ ioBy' = ioBy \cup {c}
    /\ once' = "done"
    /\ UNCHANGED <<now, ticks, channel, done, running, doneCloses>>
    /\ UNCHANGED <<kind, maxSize, rotatedTime, backup, currentSize, file,
                   backups, written, last, conf, pipes, q>>
    /\ UNCHANGED producerVars

\* A later caller: Do returns without running the body, err is still nil.
CloseSkip(c) ==
    /\ c \in DOMAIN closes
    /\ closes[c].st = "blocked"
    /\ once = "done"
    /\ closes' = [closes EXCEPT ![c] = [st |-> "ret", ret |-> "nil"]]
    /\ UNCHANGED <<now, ticks, channel, done, running, faults, once,
                   doneCloses, syncs, fpCloses, ioBy>>
    /\ UNCHANGED writerVars
    /\ UNCHANGED producerVars

PendKinds == [len : AllLens, late : BOOLEAN]

Next ==
    \/ Tick
    \/ WriteCall
    \/ \E c \in PendKinds : WriteSend(c)
    \/ \E c \in PendKinds : WriteClosed(c)
    \/ WorkerRecv
    \/ WorkerExit
    \/ CloseCall
    \/ \E c \in Closers : CloseFinish(c)
    \/ \E c \in Closers : CloseSkip(c)

Spec == Init /\ [][Next]_vars

(***************************************************************************)
(* Scheduling.  A goroutine that can take a step is eventually scheduled,  *)
(* and a select with a case that stays ready does not pass it over forever *)
(* (Go picks among the ready cases uniformly at random).                   *)
(***************************************************************************)
Fairness ==
    /\ WF_vars(WorkerExit)
    /\ WF_vars(\E c \in PendKinds : WriteClosed(c))
    /\ WF_vars(\E c \in Closers : CloseFinish(c))
    /\ WF_vars(\E c \in Closers : CloseSkip(c))

LiveSpec == Spec /\ Fairness

\* A SizeLimit logger on a new file, written records of either length.
RecoverInit == Start({RecoverConf}, {"size"}, {0}, {NoQuery})

RecoverSpec == RecoverInit /\ [][Next]_vars

(***************************************************************************)
(* The goroutine started by postRotate: maybeCompressFile(file), then      *)
(* maybeDeleteOutdatedFiles().                                             *)
(***************************************************************************)
PipeIds == 1..MaxCalls

\* The name of backup b in the directory.
NameOf(b) ==
    IF kind = "daily" THEN DailyName(conf.delimiter, b.name, b.gz)
                      ELSE SizeLimitName(conf.delimiter, b.name, b.gz)

\* l.rule.OutdatedFiles() over the directory as it is now.
OutdatedFiles ==
    LET names == (IF file.exists THEN {filename} ELSE {})
                    \cup {NameOf(b) : b \in backups}
    IN  IF kind = "daily" THEN DailyOutdatedFiles(conf, names, now)
                          ELSE SizeLimitOutdatedFiles(conf, names, now)

\* gzipFile(file) done: file + gzipExt holds the records, file is removed.
gzipFile(bs, name) ==
    {b \in bs : b.name # name}
        \cup {[b EXCEPT !.gz = TRUE] : b \in {x \in bs : x.name = name /\ ~x.gz}}

Unrecovered(outcome) == IF outcome = "panicked" THEN "done" ELSE "cleanup"

\* Where the goroutine goes once maybeCompressFile is over: the deferred
\* recover() makes a panic of the compression a return.
afterCompress(outcome) == "cleanup"

\* maybeCompressFile: nothing if compress is off or os.Stat(file) fails;
\* else the compression succeeds, returns an error, or panics.
Compress(i) ==
    /\ i \in DOMAIN pipes
    /\ pipes[i].pc = "compress"
    /\ LET there == \E b \in backups : b.name = pipes[i].file /\ ~b.gz
       IN  \E outcome \in {"skipped", "ok", "failed", "panicked"} :
             /\ (outcome = "skipped") <=> (~conf.compress \/ ~there)
             /\ backups' = IF outcome = "ok"
                           THEN gzipFile(backups, pipes[i].file)
                           ELSE backups
             /\ pipes' = [pipes EXCEPT ![i].gz = outcome,
                                       ![i].pc = afterCompress(outcome)]
    /\ UNCHANGED <<now, ticks, kind, maxSize, rotatedTime, fp, backup,
                   currentSize, channel, done, running, file, written, last,
                   faults, conf, q>>
    /\ UNCHANGED closeVars
    /\ UNCHANGED producerVars

\* maybeDeleteOutdatedFiles: os.Remove of every file the rule reports.
Cleanup(i) ==
    /\ i \in DOMAIN pipes
    /\ pipes[i].pc = "cleanup"
    /\ backups' = {b \in backups : NameOf(b) \notin OutdatedFiles}
    /\ file' = IF filename \in OutdatedFiles
               THEN [file EXCEPT !.exists = FALSE]
               ELSE file
    /\ pipes' = [pipes EXCEPT ![i].cleaned = TRUE, ![i].pc = "done"]
    /\ UNCHANGED <<now, ticks, kind, maxSize, rotatedTime, fp, backup,
                   currentSize, channel, done, running, written, last,
                   faults, conf, q>>
    /\ UNCHANGED closeVars
    /\ UNCHANGED producerVars

\* A logger in service, nobody calling Close, on a file that has reached
\* the size budget.
PipeInit == Start(PipeConfs, {"daily", "size"}, {megabyte}, {NoQuery})

PipeNext ==
    \/ Tick
    \/ WriteCall
    \/ \E c \in PendKinds : WriteSend(c)
    \/ WorkerRecv
    \/ \E i \in PipeIds : Compress(i)
    \/ \E i \in PipeIds : Cleanup(i)

PipeSpec == PipeInit /\ [][PipeNext]_vars

(***************************************************************************)
(* The rules' OutdatedFiles applied to the calls of Queries.               *)
(***************************************************************************)
loggerVars == <<now, ticks, kind, maxSize, rotatedTime, fp, backup,
                currentSize, channel, done, running, once, file, backups,
                pend, calls, sink, closes, written, last, faults,
                doneCloses, syncs, fpCloses, ioBy, conf, pipes>>

CallDailyOutdatedFiles ==
    /\ q.rule = "daily"
    /\ ~q.called
    /\ q' = [q EXCEPT !.called = TRUE,
                      !.result = DailyOutdatedFiles(q, Dir(q), q.now)]
    /\ UNCHANGED loggerVars

CallSizeLimitOutdatedFiles ==
    /\ q.rule = "size"
    /\ ~q.called
    /\ q' = [q EXCEPT !.called = TRUE,
                      !.result = SizeLimitOutdatedFiles(q, Dir(q), q.now)]
    /\ UNCHANGED loggerVars

RuleInit == Start({MainConf}, {"size"}, {0}, Queries)

RuleNext == CallDailyOutdatedFiles \/ CallSizeLimitOutdatedFiles

RuleSpec == RuleInit /\ [][RuleNext]_vars

(***************************************************************************)
(* Properties.                                                             *)
(***************************************************************************)
Returned == {c \in DOMAIN closes : closes[c].st = "ret"}

Accepted == {id \in DOMAIN calls : calls[id].err = "nil"}

Ids(data) == {data[i].id : i \in DOMAIN data}

\* The backup files' contents, oldest name first, each name being a time.
RECURSIVE InRotationOrder(_)
InRotationOrder(bs) ==
    IF bs = {} THEN <<>>
    ELSE LET b == CHOOSE x \in bs : \A y \in bs : x.name <= y.name
         IN  b.data \o InRotationOrder(bs \ {b})

\* The records on disk: the backups in rotation order, then the active file.
OnDisk == InRotationOrder(backups) \o file.data

\* What this logger wrote to the active file: all but the content it found.
SinceOpen == SelectSeq(file.data, LAMBDA r : r.id # 0)

\* C1: once a Close call has returned, and no file operation has failed,
\* every record whose Write returned (len, nil) before done was closed has
\* been handed to fp.Write.
C1_CloseDrainsQueue ==
    (Returned # {} /\ faults = 0) =>
        \A id \in Accepted : ~calls[id].closing => id \in written

\* C2: a Write call that starts after done is closed fails with
\* ErrLogFileClosed, returns 0, enqueues nothing and prints its record.
C2_WriteAfterCloseFails ==
    \A id \in DOMAIN calls :
        calls[id].late =>
            /\ calls[id].err = "ErrLogFileClosed"
            /\ calls[id].n = 0
            /\ id \in sink
            /\ id \notin Ids(channel) \cup written

\* C3: the records on disk, backups in rotation order and then the active
\* file, are in the order in which their Write calls were accepted.
C3_FifoOnDisk ==
    LET d == SelectSeq(OnDisk, LAMBDA r : r.id # 0)
    IN  \A i, j \in DOMAIN d : i < j => d[i].id < d[j].id

C3_Witness ==
    /\ \E b \in backups : \E i \in DOMAIN b.data : b.data[i].id # 0
    /\ Len(SinceOpen) >= 2

\* C4: every Close call that has returned has returned the same value.
C4_CloseSameResult ==
    \A c, d \in Returned : closes[c].ret = closes[d].ret

\* C5: done is closed once, the handle is synced at most once and closed at
\* most once, by one Close call only, and a Close call that has returned
\* means done was closed and the sync attempted.
C5_CloseOnce ==
    /\ doneCloses <= 1
    /\ syncs <= 1
    /\ fpCloses <= 1
    /\ Cardinality(ioBy) <= 1
    /\ done <=> doneCloses = 1
    /\ Returned # {} => (doneCloses = 1 /\ syncs = 1 /\ once = "done")

C5_Witness == Cardinality(Returned) = 2 /\ fpCloses = 1

\* C6: under fair scheduling, once Close is invoked every Write call in
\* progress returns, and once Close is called every Close call made so far
\* returns.
C6_NoHang ==
    /\ (done /\ pend # EmptyBag) ~> (pend = EmptyBag)
    /\ (closes # <<>>) ~> (Returned = DOMAIN closes)

C6_Witness ==
    /\ done
    /\ running
    /\ Len(channel) = bufferSize
    /\ \E c \in PendKinds : BagIn(c, pend) /\ ~c.late

\* C7: the channel never holds more than bufferSize records, and in a step
\* taken while it is full and done is not closed no Write call returns and
\* none is dropped.
C7_Backpressure ==
    /\ [](Len(channel) <= bufferSize)
    /\ [][(Len(channel) = bufferSize /\ ~done) =>
             /\ calls' = calls
             /\ sink' = sink
             /\ \A c \in PendKinds : CopiesIn(c, pend') >= CopiesIn(c, pend)]_vars

C7_Witness == Len(channel) = bufferSize /\ ~done /\ pend # EmptyBag

\* C8: after a write() whose rotation succeeded, the active file holds that
\* record and nothing else, no backup holds it, and no record is in two
\* places on disk.
C8_TriggerFirstInNewFile ==
    /\ last.rotated =>
          /\ file.exists
          /\ file.data = <<[id |-> last.id, len |-> last.len]>>
          /\ \A b \in backups : last.id \notin Ids(b.data)
    /\ \A i, j \in DOMAIN OnDisk : i # j => OnDisk[i].id # OnDisk[j].id

C8_Witness == last.rotated /\ \E b \in backups : b.data # <<>>

\* C9: under the SizeLimit rule with maxSize > 0 no backup file is larger
\* than maxSize megabytes.
C9_BackupWithinBudget ==
    (kind = "size" /\ maxSize > 0) =>
        \A b \in backups : Size(b.data) <= maxSize * megabyte

\* C10: write() marks the rule and resets the counter exactly when its
\* rotation succeeded; right after such a write the counter is the length
\* of that record; and while the handle is open the counter is the total
\* length of the records this logger wrote to the active file.
C10_CounterTracksFile ==
    /\ last.marked = last.rotated
    /\ last.reset = last.rotated
    /\ last.rotated => currentSize = last.len
    /\ fp = "open" => currentSize = Size(SinceOpen)

C10_Witness ==
    /\ last.rotated
    /\ faults > 0
    /\ Len(SinceOpen) = 1
    /\ fp = "open"

\* C11: under the Daily rule, the rule's mark is never a later date than the
\* clock's; a write() finds ShallRotate true exactly when the date differs
\* from the date of the last MarkRotated (or of construction); the mark
\* changes only in a write() whose rotation succeeded, to the date of that
\* write; so a rotation succeeds only on a date on which none has succeeded.
C11_DailyOncePerDay ==
    /\ [](kind = "daily" => rotatedTime <= getNowDate(now))
    /\ [][kind = "daily" =>
             /\ last'.id # last.id =>
                   /\ last'.shall <=> getNowDate(now) # rotatedTime
                   /\ last'.rotated =>
                         /\ rotatedTime # getNowDate(now)
                         /\ rotatedTime' = getNowDate(now)
             /\ rotatedTime' # rotatedTime =>
                   last'.id # last.id /\ last'.rotated]_vars

\* A rotation succeeded on the second day and a later write() that day,
\* after a record that fills most of a megabyte, did not rotate.
C11_Witness ==
    /\ kind = "daily"
    /\ ticks > 0
    /\ rotatedTime = getNowDate(now)
    /\ last.id # 0
    /\ ~last.shall
    /\ Len(SinceOpen) >= 2

\* C15: where the only file operation of rotate that fails is the rename,
\* after a write() whose rotation failed the writer has reopened filename:
\* it holds a handle and the record that triggered the rotation has been
\* handed to fp.Write.
C15_RenameFailureReopens ==
    (conf.failing = {"rename"} /\ last.shall /\ ~last.rotated) =>
        (fp # "nil" /\ last.id \in written)

\* C17: under the SizeLimit rule the names to which successive rotations
\* renamed the active file are pairwise distinct.
C17_DistinctBackupNames ==
    kind = "size" =>
        \A i, j \in DOMAIN pipes : i # j => pipes[i].file # pipes[j].file

\* C19: the handle, the file behind it and the size counter change only in
\* a write() of the writer goroutine, taken while it runs and changing
\* nothing of a Close call, or in the Sync and Close of a Close call, taken
\* after the writer goroutine has exited; such a step is no step of a Write
\* call and advances no post-rotation goroutine; Sync is never called while
\* the writer goroutine runs.
C19_HandleOneThread ==
    /\ [](syncs > 0 => ~running)
    /\ [][(fp' # fp \/ file' # file \/ written' # written
              \/ currentSize' # currentSize) =>
             /\ producerVars' = producerVars
             /\ \A i \in DOMAIN pipes : pipes'[i] = pipes[i]
             /\ \/ running /\ running' /\ last'.id # last.id
                   /\ closeVars' = closeVars
                \/ ~running /\ last' = last /\ syncs' = syncs + 1
                   /\ fp = "open" /\ fp' = "closed" /\ file' = file]_vars
    /\ [][(syncs' # syncs \/ fpCloses' # fpCloses) =>
             ~running /\ last' = last /\ file' = file]_vars

\* The writer goroutine wrote, rotated and reopened, and after it exited a
\* Close call closed the handle.
C19_Witness ==
    /\ fp = "closed"
    /\ pipes # <<>>
    /\ Len(SinceOpen) >= 1
    /\ fpCloses = 1

\* C16: a write() that starts without a handle, and in which no rotation
\* fails, rotates again: it leaves the logger with a handle and its record
\* has been handed to fp.Write, whatever the record's length.
C16_FailedRotationRecovers ==
    (last.id # 0 /\ ~last.hadFp /\ (last.shall => last.rotated)) =>
        (fp # "nil" /\ last.id \in written)

\* The files of call c that its glob pattern matches.
Matching(c) ==
    IF c.rule = "daily"
    THEN Glob(Dir(c), filename \o c.delimiter, gzSuffix(c.gzip))
    ELSE Glob(Dir(c), prefix \o c.delimiter, ext \o gzSuffix(c.gzip))

\* The files of call c that are not among the k greatest matching names.
BeyondNewest(c, k) ==
    {f \in Matching(c) : Cardinality({g \in Matching(c) : Less(f, g)}) >= k}

AgeBoundary(c) ==
    SizeLimitName(c.delimiter, c.now - c.days * DaySeconds, c.gzip)

\* C13: the result of SizeLimit OutdatedFiles is the union of the matching
\* files beyond the newest maxBackups (when maxBackups > 0) and the matching
\* files whose name sorts before the age boundary (when days > 0).
C13_RetentionUnion ==
    (q.rule = "size" /\ q.called) =>
        q.result =
            (IF q.maxBackups > 0 THEN BeyondNewest(q, q.maxBackups) ELSE {})
            \cup
            (IF q.days > 0
             THEN {f \in Matching(q) : Less(f, AgeBoundary(q))}
             ELSE {})

\* Both tests report a file: one is beyond the newest maxBackups, another
\* is among the newest maxBackups and sorts before the boundary.
C13_Witness ==
    /\ q.rule = "size" /\ q.called
    /\ q.maxBackups > 0 /\ q.days > 0
    /\ BeyondNewest(q, q.maxBackups) # {}
    /\ \E f \in q.result : f \notin BeyondNewest(q, q.maxBackups)

\* C14: Daily OutdatedFiles never returns the active file.
C14_ActiveFileKept ==
    (q.rule = "daily" /\ q.called) => filename \notin q.result

\* C18: with days > 0 and maxBackups = 0, SizeLimit OutdatedFiles does not
\* return the name of a backup whose file was opened less than days days
\* before the call.
C18_AgeWindow ==
    (q.rule = "size" /\ q.called /\ q.days > 0 /\ q.maxBackups = 0) =>
        \A f \in q.files :
            q.now - f.open < q.days * DaySeconds =>
                BackupName(q, f) \notin q.result

\* C20: a write() starts one goroutine, for the name the active file was
\* renamed to, exactly when its rotation renamed the active file (it then
\* created the new file, or the old name is gone), and ends
\* with that goroutine not yet run; the writer's next step never waits for
\* a goroutine; a goroutine is compressing, then cleaning up, then done: it
\* cleans up only after maybeCompressFile is over and it ends only after
\* the cleanup, whatever the outcome of the compression.
C20_PostRotatePipeline ==
    /\ [][last'.id # last.id =>
             LET renamed == /\ last'.shall
                            /\ file.exists
                            /\ last'.rotated \/ ~file'.exists
             IN  IF renamed
                 THEN /\ Len(pipes') = Len(pipes) + 1
                      /\ pipes'[Len(pipes')] = postRotate(backup)
                      /\ \E b \in backups' : b.name = backup /\ ~b.gz
                                               /\ b.data = file.data
                 ELSE pipes' = pipes]_vars
    /\ [][\A i \in DOMAIN pipes :
             /\ pipes'[i].file = pipes[i].file
             /\ pipes'[i].cleaned # pipes[i].cleaned =>
                   pipes[i].gz # "none" /\ pipes'[i].gz = pipes[i].gz
             /\ pipes'[i] # pipes[i] => last' = last /\ fp' = fp]_vars
    /\ [](\A i \in DOMAIN pipes :
             /\ pipes[i].pc = "compress" =>
                   pipes[i].gz = "none" /\ ~pipes[i].cleaned
             /\ pipes[i].pc = "cleanup" =>
                   pipes[i].gz # "none" /\ ~pipes[i].cleaned
             /\ pipes[i].pc = "done" =>
                   pipes[i].gz # "none" /\ pipes[i].cleaned
             /\ pipes[i].pc \in {"compress", "cleanup", "done"})
    /\ []((running /\ channel # <<>>) => ENABLED WorkerRecv)

\* Two rotations renamed the file; the first goroutine's compression
\* panicked and its cleanup ran; the second has not run yet although the
\* writer has created the new file and written the record to it.
C20_Witness ==
    /\ Len(pipes) = 2
    /\ pipes[1].gz = "panicked" /\ pipes[1].cleaned
    /\ pipes[2].pc = "compress"
    /\ last.rotated
    /\ fp = "open"
    /\ last.id \in Ids(file.data)

====
